---- MODULE Spec2Model ----
(***************************************************************************)
(* Glossary module of backend/app.py: the load of glossary_terms.json at   *)
(* import time, fuzzy_match_score, and the handlers that read the          *)
(* glossary: search_glossary (GET /api/glossary/search), get_term          *)
(* (GET /api/glossary/term/<term_id>) and get_related_terms                *)
(* (POST /api/glossary/related-terms).  Spec runs one request at a time,   *)
(* SpecThreaded runs the handlers step by step on two threads.             *)
(*                                                                         *)
(* Strings are sequences of one-character strings, so that strip(),        *)
(* lower(), startswith(), `in` and SequenceMatcher act on characters.      *)
(* Scores are exact fractions <<n, d>> in lowest terms (d > 0); the code   *)
(* computes them as binary doubles, where two products that are equal as   *)
(* fractions can differ in the last bit (4/7 * 0.7 and 2/5).               *)
(* SequenceMatcher is modelled without its autojunk heuristic, which only  *)
(* acts on texts of 200 characters and more.                               *)
(***************************************************************************)
EXTENDS Integers, Sequences, FiniteSets, TLC

\* ------------------------------------------------------------------ bounds

\* Length of the corpora composed freely (every sequence over Pool).
MaxSmallCorpus == 2
\* The large corpora have MAX_RESULTS .. MAX_RESULTS + MaxExtra terms.
MaxExtra == 2
\* Queries over QueryAlphabet are enumerated up to this length.
MaxQueryLen == 2
\* fuzzy_match_score on its own is applied to strings up to this length.
MaxTextLen == 3
\* The model's replies to a related-terms prompt suggest up to this many terms.
MaxRelated == 2

\* results = results[:20]
MAX_RESULTS == 20

\* ----------------------------------------------------------------- strings

\* str.lower() on the characters of the model's alphabet.
LowerChar(c) ==
    CASE c = "A" -> "a"
      [] c = "B" -> "b"
      [] c = "C" -> "c"
      [] c = "M" -> "m"
      [] OTHER -> c

lower(s) == [i \in 1..Len(s) |-> LowerChar(s[i])]

\* The characters str.strip() removes.
IsSpace(c) == c \in {" ", "\t", "\n"}

RECURSIVE lstrip(_)
lstrip(s) ==
    IF s # <<>> /\ IsSpace(Head(s)) THEN lstrip(Tail(s)) ELSE s

RECURSIVE rstrip(_)
rstrip(s) ==
    IF s # <<>> /\ IsSpace(s[Len(s)]) THEN rstrip(SubSeq(s, 1, Len(s) - 1)) ELSE s

\* strip removing the leading whitespace only.
strip_leading(s) == lstrip(s)

\* str.strip()
strip(s) == rstrip(lstrip(s))

\* text.startswith(prefix)
startswith(text, prefix) ==
    /\ Len(prefix) <= Len(text)
    /\ SubSeq(text, 1, Len(prefix)) = prefix

\* needle in text
contains(text, needle) ==
    \E i \in 1..(Len(text) - Len(needle) + 1) :
        SubSeq(text, i, i + Len(needle) - 1) = needle

\* --------------------------------------------------------------- fractions

RECURSIVE GCD(_, _)
GCD(a, b) == IF b = 0 THEN a ELSE GCD(b, a % b)

\* The fraction n/d (n >= 0, d > 0) in lowest terms.
Frac(n, d) == LET g == GCD(n, d) IN <<n \div g, d \div g>>

FracMul(x, y) == Frac(x[1] * y[1], x[2] * y[2])
FracLess(x, y) == x[1] * y[2] < y[1] * x[2]
FracLeq(x, y) == x[1] * y[2] <= y[1] * x[2]
FracMax(x, y) == IF FracLess(x, y) THEN y ELSE x
FracAdd(x, y) == Frac(x[1] * y[2] + y[1] * x[2], x[2] * y[2])

\* ------------------------------------------------- difflib.SequenceMatcher

\* Length of the common run of a[i..ahi] and b[j..bhi] (1-based, inclusive).
RECURSIVE RunLen(_, _, _, _, _, _)
RunLen(a, b, i, j, ahi, bhi) ==
    IF i <= ahi /\ j <= bhi /\ a[i] = b[j]
    THEN 1 + RunLen(a, b, i + 1, j + 1, ahi, bhi)
    ELSE 0

\* SequenceMatcher.find_longest_match without junk: the longest block
\* a[i..i+k-1] = b[j..j+k-1] inside a[alo..ahi], b[blo..bhi]; of the longest
\* blocks the one starting earliest in a, and of those the earliest in b.
find_longest_match(a, b, alo, ahi, blo, bhi) ==
    LET blocks == {<<i, j, RunLen(a, b, i, j, ahi, bhi)>> : i \in alo..ahi, j \in blo..bhi}
        best == {p \in blocks : \A r \in blocks : r[3] <= p[3]}
    IN  IF blocks = {}
        THEN <<alo, blo, 0>>
        ELSE CHOOSE p \in best :
                \A r \in best : p[1] < r[1] \/ (p[1] = r[1] /\ p[2] <= r[2])

\* The number of matched characters of SequenceMatcher.get_matching_blocks:
\* the longest block, then the same to its left and to its right.
RECURSIVE matches(_, _, _, _, _, _)
matches(a, b, alo, ahi, blo, bhi) ==
    LET m == find_longest_match(a, b, alo, ahi, blo, bhi)
        i == m[1]
        j == m[2]
        k == m[3]
    IN  IF k = 0
        THEN 0
        ELSE matches(a, b, alo, i - 1, blo, j - 1) + k
             + matches(a, b, i + k, ahi, j + k, bhi)

\* SequenceMatcher(None, a, b).ratio(): 2.0 * matches / (len(a) + len(b)),
\* and 1.0 when both are empty.
ratio(a, b) ==
    IF Len(a) + Len(b) = 0
    THEN Frac(1, 1)
    ELSE Frac(2 * matches(a, b, 1, Len(a), 1, Len(b)), Len(a) + Len(b))

\* ------------------------------------------------------- fuzzy_match_score

\* fuzzy_match_score without the two lower() calls.
fuzzy_match_cased(query, text) ==
    IF query = text THEN Frac(1, 1)
    ELSE IF startswith(text, query) THEN Frac(9, 10)
    ELSE IF contains(text, query) THEN Frac(7, 10)
    ELSE ratio(query, text)

\* fuzzy_match_score testing containment before the prefix.
fuzzy_match_unordered(query, text) ==
    LET query_lower == lower(query)
        text_lower == lower(text)
    IN  IF query_lower = text_lower THEN Frac(1, 1)
        ELSE IF contains(text_lower, query_lower) THEN Frac(7, 10)
        ELSE IF startswith(text_lower, query_lower) THEN Frac(9, 10)
        ELSE ratio(query_lower, text_lower)

fuzzy_match_score(query, text) ==
    LET query_lower == lower(query)
        text_lower == lower(text)
    IN  IF query_lower = text_lower THEN Frac(1, 1)
        ELSE IF startswith(text_lower, query_lower) THEN Frac(9, 10)
        ELSE IF contains(text_lower, query_lower) THEN Frac(7, 10)
        ELSE ratio(query_lower, text_lower)

\* ------------------------------------------------------------------ corpus

Term(id, term, shortDefinition, detailedDefinition, category) ==
    [id |-> id, term |-> term, shortDefinition |-> shortDefinition,
     detailedDefinition |-> detailedDefinition, category |-> category]

\* The terms the glossary files of the model are composed of.  Pool[1] and
\* Pool[4] share an id and (case-insensitively) a headword; Pool[2] matches
\* the query "ab" only by containment in detailedDefinition; Pool[5] scores
\* exactly 3/10 on the query "abc"; Pool[6] has a headword with a leading blank;
\* Pool[2] holds the query "a" inside both definitions and not in its headword.
Pool ==
    << Term("t1", <<"A", "b">>, <<"b", "c">>, <<"c">>, <<"m">>),
       Term("t2", <<"c">>, <<"c", "a">>, <<"c", "a", "b">>, <<"p">>),
       Term("t3", <<"a", "b", "c">>, <<"a", "b">>, <<>>, <<"m">>),
       Term("t1", <<"a", "b">>, <<"a">>, <<"b">>, <<"p">>),
       Term("t5", <<"m">>, <<"m">>, <<"a", "b", "b", "c", "b", "b", "b">>, <<"m">>),
       Term("t6", <<" ", "a", "b">>, <<"m">>, <<"m">>, <<"m">>) >>

\* Every sequence over S of length at most n.
RECURSIVE SeqsUpTo(_, _)
SeqsUpTo(S, n) ==
    IF n = 0
    THEN {<<>>}
    ELSE LET shorter == SeqsUpTo(S, n - 1)
         IN  shorter \cup {Append(s, x) : s \in shorter, x \in S}

SmallCorpora == SeqsUpTo({Pool[i] : i \in DOMAIN Pool}, MaxSmallCorpus)

\* Corpora around and beyond the result limit: Pool[t] and Pool[u]
\* alternating, Pool[t] repeated with Pool[u] as the last term, or Pool[t]
\* and Pool[u] alternating with Pool[v] as the last term.
AlternatingPairs == {<<2, 1>>, <<5, 2>>}
TrailingPairs == {<<1, 4>>}
AlternatingThenTriples == {<<2, 1, 4>>}
LargeLens == MAX_RESULTS..(MAX_RESULTS + MaxExtra)
Alternating(n, t, u) == [i \in 1..n |-> IF i % 2 = 1 THEN Pool[t] ELSE Pool[u]]
Trailing(n, t, u) == [i \in 1..n |-> IF i < n THEN Pool[t] ELSE Pool[u]]
AlternatingThen(n, t, u, v) ==
    [i \in 1..n |-> IF i = n THEN Pool[v] ELSE IF i % 2 = 1 THEN Pool[t] ELSE Pool[u]]
LargeCorpora ==
    {Alternating(n, p[1], p[2]) : n \in LargeLens, p \in AlternatingPairs}
    \cup {Trailing(n, p[1], p[2]) : n \in LargeLens, p \in TrailingPairs}
    \cup {AlternatingThen(n, p[1], p[2], p[3]) : n \in LargeLens, p \in AlternatingThenTriples}

FileCategories == << <<"m">>, <<"p">> >>

\* What data/glossary_terms.json can hold when the module is imported: no
\* file, text that is not JSON, JSON without a "terms" list, or a glossary.
Files ==
    {[kind |-> "missing"], [kind |-> "unparsable"],
     [kind |-> "json", data |-> [categories |-> FileCategories]]}
    \cup {[kind |-> "json", data |-> [terms |-> c, categories |-> FileCategories]] :
            c \in SmallCorpora \cup LargeCorpora}

\* ---------------------------------------------------------------- requests

\* A query parameter is <<>> when absent from the URL and <<value>> otherwise.
QueryAlphabet == {"a", "b"}
QueryStrings ==
    SeqsUpTo(QueryAlphabet, MaxQueryLen)
    \cup { <<" ">>, <<" ", "a", "b", " ">>, <<" ", "a", "b">>, <<"A", "B">>,
           <<"a", "b", "c">>, <<"c">> }
CategoryStrings ==
    { <<"m">>, <<" ", "m", " ">>, <<"M">>, <<"p">>, <<" ">>, <<"z">> }
QArgs == {<<>>} \cup {<<q>> : q \in QueryStrings}
CategoryArgs == {<<>>} \cup {<<c>> : c \in CategoryStrings}
TermIds == {"t1", "t2", "t5", "zz"}

\* request.args.get(key, default)
ArgsGet(arg, default) == IF arg = <<>> THEN default ELSE arg[1]

\* ------------------------------------------------------------------- state

VARIABLES
    file,           \* the content of data/glossary_terms.json
    client,         \* TRUE for an OpenAI client, FALSE for None (no API key)
    pc,             \* "import" while the module is being imported, then "serving"
                    \* (or "crashed")
    GLOSSARY_DATA,  \* <<>> for None, <<dict>> otherwise
    request,        \* the request being answered
    response,       \* the response to it
    seen,           \* <<>> or <<[request, response]>>: an earlier call, kept for comparison
    workers         \* the server threads, each with the call it runs and its locals

vars == <<file, client, pc, GLOSSARY_DATA, request, response, seen, workers>>

NoRequest == [op |-> "none"]
NoResponse == [status |-> 0]

\* The threads of the threaded server, and a thread between two calls.
Workers == {"w1", "w2"}
Idle ==
    [pc |-> "idle", request |-> NoRequest, query |-> <<>>, category |-> <<>>,
     i |-> 0, results |-> <<>>, response |-> NoResponse, raced |-> FALSE]

\* GLOSSARY_DATA = None; the file is whatever is on disk, the client is there
\* if the environment has an API key.
Init ==
    /\ file \in Files
    /\ client \in BOOLEAN
    /\ pc = "import"
    /\ GLOSSARY_DATA = <<>>
    /\ request = NoRequest
    /\ response = NoResponse
    /\ seen = <<>>
    /\ workers = [w \in Workers |-> Idle]

\* What the try block raises: open() on a missing file, json.load() on text
\* that is not JSON, GLOSSARY_DATA['terms'] in the logger.info line on JSON
\* without "terms".
LoadError(f) ==
    CASE f.kind = "missing" -> "FileNotFoundError"
      [] f.kind = "unparsable" -> "JSONDecodeError"
      [] f.kind = "json" /\ "terms" \notin DOMAIN f.data -> "KeyError"
      [] OTHER -> "none"

\* CaughtByExcept for a handler written as except OSError.
CaughtIfOSError(err) == err = "FileNotFoundError"

\* except Exception: the classes it catches.
CaughtByExcept(err) == err \in {"FileNotFoundError", "JSONDecodeError", "KeyError"}

LoadSucceeds(f) == LoadError(f) = "none"

\* The try/except around the load: the parsed file, or the empty glossary.
LoadedData(f) ==
    IF LoadSucceeds(f) THEN f.data ELSE [terms |-> <<>>, categories |-> <<>>]

\* The import: it ends in "serving", or in "crashed" on an exception that
\* nothing catches.
LoadGlossary ==
    /\ pc = "import"
    /\ IF LoadSucceeds(file) \/ CaughtByExcept(LoadError(file))
       THEN /\ GLOSSARY_DATA' = <<LoadedData(file)>>
            /\ pc' = "serving"
       ELSE /\ GLOSSARY_DATA' = GLOSSARY_DATA
            /\ pc' = "crashed"
    /\ UNCHANGED <<file, client, request, response, seen, workers>>

\* not GLOSSARY_DATA or not GLOSSARY_DATA["terms"]
Unavailable(data) == data = <<>> \/ data[1].terms = <<>>

UnavailableResponse == [status |-> 500, error |-> "Glossary data not available"]

\* --------------------------------------------------------- search_glossary

\* ListedTerms cut to the first 20 terms, as the scored results are.
ListedTermsCut(terms, category) ==
    LET listed == IF category # <<>>
                  THEN SelectSeq(terms, LAMBDA t : t.category = category)
                  ELSE terms
    IN  IF Len(listed) <= MAX_RESULTS THEN listed ELSE SubSeq(listed, 1, MAX_RESULTS)

\* The listing path: filtered_terms, all terms or those of the category.
ListedTerms(terms, category) ==
    IF category # <<>>
    THEN SelectSeq(terms, LAMBDA t : t.category = category)
    ELSE terms

\* ListedStored for a listing path that filters GLOSSARY_DATA["terms"] in place.
ListedStoredFiltered(terms, category) == ListedTerms(terms, category)

\* GLOSSARY_DATA["terms"] after the listing path: the comprehension builds a
\* new list, the stored one is left as it is.
ListedStored(terms, category) == terms

\* Skipped with the category test left out.
SkippedNever(term, category) == FALSE

\* if category and term["category"] != category: continue
Skipped(term, category) == category # <<>> /\ term.category # category

\* The weights of shortDefinition and detailedDefinition.
DefWeight == Frac(7, 10)
DetailWeight == Frac(5, 10)

\* max_score adding the three weighted scores up.
sum_score(term, query) ==
    LET term_score == fuzzy_match_score(query, term.term)
        def_score == FracMul(fuzzy_match_score(query, term.shortDefinition), DefWeight)
        detail_score ==
            FracMul(fuzzy_match_score(query, term.detailedDefinition), DetailWeight)
    IN  FracAdd(FracAdd(term_score, def_score), detail_score)

\* max(term_score, def_score, detail_score)
max_score(term, query) ==
    LET term_score == fuzzy_match_score(query, term.term)
        def_score == FracMul(fuzzy_match_score(query, term.shortDefinition), DefWeight)
        detail_score ==
            FracMul(fuzzy_match_score(query, term.detailedDefinition), DetailWeight)
    IN  FracMax(FracMax(term_score, def_score), detail_score)

\* Included with >= in place of >.
IncludedAtThreshold(score) == FracLeq(Frac(3, 10), score)

\* if max_score > 0.3
Included(score) == FracLess(Frac(3, 10), score)

\* {**term, "matchScore": max_score}
ScoredEntry(term, score) ==
    [id |-> term.id, term |-> term.term, shortDefinition |-> term.shortDefinition,
     detailedDefinition |-> term.detailedDefinition, category |-> term.category,
     matchScore |-> score]

\* StoredEntry writing matchScore into the stored term.
StoredEntryScored(term, score) ==
    [id |-> term.id, term |-> term.term, shortDefinition |-> term.shortDefinition,
     detailedDefinition |-> term.detailedDefinition, category |-> term.category,
     matchScore |-> score]

\* What the loop leaves in GLOSSARY_DATA["terms"] for a term it appended to
\* results: the entry appended is a new dict, the stored one is not written.
StoredEntry(term, score) == term

\* The scores of the loop, by corpus position: <<>> for a term the category
\* filter skips, <<max_score>> otherwise.
RECURSIVE LoopScores(_, _, _)
LoopScores(terms, query, category) ==
    IF terms = <<>>
    THEN <<>>
    ELSE LET last == terms[Len(terms)]
         IN  Append(LoopScores(SubSeq(terms, 1, Len(terms) - 1), query, category),
                    IF Skipped(last, category)
                    THEN <<>>
                    ELSE <<max_score(last, query)>>)

\* results after the loop, in corpus order.
RECURSIVE Appended(_, _, _)
Appended(terms, scores, n) ==
    IF n = 0
    THEN <<>>
    ELSE LET before == Appended(terms, scores, n - 1)
         IN  IF scores[n] # <<>> /\ Included(scores[n][1])
             THEN Append(before, ScoredEntry(terms[n], scores[n][1]))
             ELSE before

\* InsertByScore putting x before the entries of its own matchScore, as a
\* sort that reverses the order of equal keys does.
RECURSIVE InsertBeforeTies(_, _)
InsertBeforeTies(sorted, x) ==
    IF sorted = <<>>
    THEN <<x>>
    ELSE IF FracLess(x.matchScore, Head(sorted).matchScore)
         THEN <<Head(sorted)>> \o InsertBeforeTies(Tail(sorted), x)
         ELSE <<x>> \o sorted

\* One step of the stable descending sort: x goes after every entry whose
\* matchScore is at least its own.
RECURSIVE InsertByScore(_, _)
InsertByScore(sorted, x) ==
    IF sorted = <<>>
    THEN <<x>>
    ELSE IF FracLeq(x.matchScore, Head(sorted).matchScore)
         THEN <<Head(sorted)>> \o InsertByScore(Tail(sorted), x)
         ELSE <<x>> \o sorted

\* SortByScore with the sort left out: results stay in corpus order.
SortByScoreSkipped(results) == results

\* results.sort(key=lambda x: x["matchScore"], reverse=True): list.sort is
\* stable, also under reverse=True.
RECURSIVE SortByScore(_)
SortByScore(results) ==
    IF results = <<>>
    THEN <<>>
    ELSE InsertByScore(SortByScore(SubSeq(results, 1, Len(results) - 1)),
                       results[Len(results)])

\* Truncate with the slice left out.
TruncateNothing(results) == results

\* results[:20]
Truncate(results) ==
    IF Len(results) <= MAX_RESULTS THEN results ELSE SubSeq(results, 1, MAX_RESULTS)

\* TermsResponse turning an empty result into an error.
TermsOrError(terms, categories) ==
    IF terms = <<>>
    THEN [status |-> 500, error |-> "Glossary data not available"]
    ELSE [status |-> 200, success |-> TRUE, terms |-> terms, categories |-> categories]

\* jsonify({"success": True, "terms": ..., "categories": ...})
TermsResponse(terms, categories) ==
    [status |-> 200, success |-> TRUE, terms |-> terms, categories |-> categories]

\* GLOSSARY_DATA["terms"] after the loop.
RECURSIVE Stored(_, _, _)
Stored(terms, scores, n) ==
    IF n = 0
    THEN <<>>
    ELSE Append(Stored(terms, scores, n - 1),
                IF scores[n] # <<>> /\ Included(scores[n][1])
                THEN StoredEntry(terms[n], scores[n][1])
                ELSE terms[n])

\* The body of search_glossary on the stripped parameters: the response, and
\* GLOSSARY_DATA when it returns.
SearchOutcome(data, query, category) ==
    IF Unavailable(data)
    THEN [response |-> UnavailableResponse, data |-> data]
    ELSE IF query = <<>>
    THEN [response |-> TermsResponse(ListedTerms(data[1].terms, category),
                                     data[1].categories),
          data |-> << [data[1] EXCEPT !.terms = ListedStored(data[1].terms, category)] >>]
    ELSE LET terms == data[1].terms
             scores == LoopScores(terms, query, category)
             results == Appended(terms, scores, Len(terms))
         IN  [response |-> TermsResponse(Truncate(SortByScore(results)),
                                         data[1].categories),
              data |-> << [data[1] EXCEPT !.terms = Stored(terms, scores, Len(terms))] >>]

search_glossary(qArg, categoryArg) ==
    LET query == strip(ArgsGet(qArg, <<>>))
        category == strip(ArgsGet(categoryArg, <<>>))
        outcome == SearchOutcome(GLOSSARY_DATA, query, category)
    IN  /\ pc = "serving"
        /\ request = NoRequest
        /\ request' = [op |-> "search", q |-> qArg, category |-> categoryArg]
        /\ response' = outcome.response
        /\ GLOSSARY_DATA' = outcome.data
        /\ UNCHANGED <<file, client, pc>>

\* ---------------------------------------------------------------- get_term

\* FindTerm taking the last term with the id, not the first.
FindLastTerm(terms, term_id) ==
    LET hits == {i \in 1..Len(terms) : terms[i].id = term_id}
    IN  IF hits = {}
        THEN <<>>
        ELSE <<terms[CHOOSE i \in hits : \A j \in hits : j <= i]>>

\* next((t for t in GLOSSARY_DATA["terms"] if t["id"] == term_id), None)
FindTerm(terms, term_id) ==
    LET hits == {i \in 1..Len(terms) : terms[i].id = term_id}
    IN  IF hits = {}
        THEN <<>>
        ELSE <<terms[CHOOSE i \in hits : \A j \in hits : i <= j]>>

GetTermResponse(data, term_id) ==
    IF Unavailable(data)
    THEN UnavailableResponse
    ELSE LET term == FindTerm(data[1].terms, term_id)
         IN  IF term = <<>>
             THEN [status |-> 404, error |-> "Term not found"]
             ELSE [status |-> 200, success |-> TRUE, term |-> term[1]]

get_term(term_id) ==
    /\ pc = "serving"
    /\ request = NoRequest
    /\ request' = [op |-> "get_term", term_id |-> term_id]
    /\ response' = GetTermResponse(GLOSSARY_DATA, term_id)
    /\ UNCHANGED <<file, client, pc, GLOSSARY_DATA>>

\* ------------------------------------------------------- get_related_terms

RelatedTermArgs == { <<>>, << <<>> >>, << <<"a", "b">> >> }
RelatedIds == {"t1", "zz"}

\* What client.chat.completions.create gives back: an exception, text that
\* json.loads rejects, or a JSON list of suggestions.
RelatedReplies ==
    {[kind |-> "error"], [kind |-> "text"]}
    \cup {[kind |-> "json", related |-> [k \in DOMAIN ids |-> [termId |-> ids[k]]]] :
            ids \in SeqsUpTo(RelatedIds, MaxRelated)}

\* The body of get_related_terms; tokenUsage is left out of the response.
RelatedResponse(data, term, reply) ==
    IF term = <<>>
    THEN [status |-> 400, error |-> "No term provided"]
    ELSE IF ~client
    THEN [status |-> 500, error |-> "OpenAI API not configured"]
    ELSE LET terms == data[1].terms
             available_term_ids == {terms[k].id : k \in 1..Len(terms)}
         IN  IF reply.kind # "json"
             THEN [status |-> 500,
                   error |-> "An error occurred while retrieving related terms"]
             ELSE [status |-> 200, success |-> TRUE,
                   relatedTerms |->
                       SelectSeq(reply.related,
                                 LAMBDA item : item.termId \in available_term_ids)]

get_related_terms(termArg, reply) ==
    /\ pc = "serving"
    /\ request = NoRequest
    /\ request' = [op |-> "related_terms", term |-> termArg]
    /\ response' = RelatedResponse(GLOSSARY_DATA, ArgsGet(termArg, <<>>), reply)
    /\ UNCHANGED <<file, client, pc, GLOSSARY_DATA>>

\* The response goes back to the client.
Replied ==
    /\ request # NoRequest
    /\ request' = NoRequest
    /\ response' = NoResponse
    /\ UNCHANGED <<file, client, pc, GLOSSARY_DATA>>

\* ---------------------------------------------------------- specifications

Search == \E qArg \in QArgs, categoryArg \in CategoryArgs :
             search_glossary(qArg, categoryArg) /\ UNCHANGED <<seen, workers>>

GetTerm == \E term_id \in TermIds : get_term(term_id) /\ UNCHANGED <<seen, workers>>

RelatedTerms == \E termArg \in RelatedTermArgs, reply \in RelatedReplies :
                   get_related_terms(termArg, reply) /\ UNCHANGED <<seen, workers>>

Reply == Replied /\ UNCHANGED <<seen, workers>>

Next == LoadGlossary \/ Search \/ GetTerm \/ Reply

\* search_glossary and get_term do not use the client: they are explored with
\* the API key set, and SpecRelated explores both environments.
InitKeyed == Init /\ client

Spec == InitKeyed /\ [][Next]_vars

\* The same program with one finished call kept in `seen`, to compare later
\* calls with it, over fewer files and parameters.
RepeatFiles ==
    {f \in Files : LoadSucceeds(f) =>
        \/ Len(f.data.terms) <= 1
        \/ Len(f.data.terms) = MAX_RESULTS + 1}
RepeatQArgs ==
    { <<>>, << <<>> >>, << <<"a", "b">> >>, << <<" ", "a", "b", " ">> >>,
      << <<"A", "B">> >>, << <<"c">> >>, << <<" ">> >> }
RepeatCategoryArgs == { <<>>, << <<"m">> >>, << <<" ", "m", " ">> >> }

InitRepeat == InitKeyed /\ file \in RepeatFiles

SearchRepeat == \E qArg \in RepeatQArgs, categoryArg \in RepeatCategoryArgs :
                   search_glossary(qArg, categoryArg) /\ UNCHANGED <<seen, workers>>

ReplyKeep ==
    /\ Replied
    /\ seen = <<>>
    /\ seen' = <<[request |-> request, response |-> response]>>
    /\ UNCHANGED workers

NextRepeat == LoadGlossary \/ SearchRepeat \/ GetTerm \/ Reply \/ ReplyKeep

SpecRepeat == InitRepeat /\ [][NextRepeat]_vars

\* The three handlers together, with and without the client, over the files
\* of SpecRepeat.
InitRelated == Init /\ file \in RepeatFiles

NextRelated == LoadGlossary \/ Search \/ GetTerm \/ RelatedTerms \/ Reply

SpecRelated == InitRelated /\ [][NextRelated]_vars

\* fuzzy_match_score called on its own, on every pair of strings over
\* ScoreAlphabet up to MaxTextLen characters.
ScoreAlphabet == {"a", "b", "A"}
ScoreStrings == SeqsUpTo(ScoreAlphabet, MaxTextLen)

InitScore == InitKeyed /\ file = [kind |-> "missing"]

ScoreCall ==
    \E query \in ScoreStrings, text \in ScoreStrings :
        /\ request = NoRequest
        /\ request' = [op |-> "fuzzy_match_score", query |-> query, text |-> text]
        /\ response' = [status |-> 0, score |-> fuzzy_match_score(query, text)]
        /\ UNCHANGED <<file, client, pc, GLOSSARY_DATA, seen, workers>>

NextScore == ScoreCall \/ Reply

SpecScore == InitScore /\ [][NextScore]_vars

\* The same program under the threaded development server: each request runs
\* on its own thread, the threads share GLOSSARY_DATA and take no lock, and a
\* thread can be preempted between any two of the steps below.
ThreadedFiles ==
    {f \in Files : LoadSucceeds(f) =>
        /\ Len(f.data.terms) <= Cardinality(Workers)
        /\ \A k \in 1..Len(f.data.terms) : f.data.terms[k] \in {Pool[1], Pool[2]}}
ThreadedQArgs == { <<>>, << <<"a", "b">> >>, << <<"c">> >> }
ThreadedCategoryArgs == { <<>>, << <<"m">> >> }
ThreadedTermIds == {"t1", "zz"}

InitThreaded == InitKeyed /\ file \in ThreadedFiles

\* Another thread is inside the scoring loop with an entry already appended.
OthersScoring(w) ==
    \E v \in Workers \ {w} : workers[v].pc = "loop" /\ workers[v].results # <<>>

\* A search request reaches thread w: query and category are read and stripped.
ArriveSearch(w, qArg, categoryArg) ==
    /\ pc = "serving"
    /\ workers[w].pc = "idle"
    /\ workers' = [workers EXCEPT ![w] =
           [Idle EXCEPT !.pc = "check",
                        !.request = [op |-> "search", q |-> qArg, category |-> categoryArg],
                        !.query = strip(ArgsGet(qArg, <<>>)),
                        !.category = strip(ArgsGet(categoryArg, <<>>))]]
    /\ UNCHANGED <<file, client, pc, GLOSSARY_DATA, request, response, seen>>

\* A get_term request reaches thread w.
ArriveGetTerm(w, term_id) ==
    /\ pc = "serving"
    /\ workers[w].pc = "idle"
    /\ workers' = [workers EXCEPT ![w] =
           [Idle EXCEPT !.pc = "lookup",
                        !.request = [op |-> "get_term", term_id |-> term_id]]]
    /\ UNCHANGED <<file, client, pc, GLOSSARY_DATA, request, response, seen>>

\* The availability test of search_glossary and the branch on the query.
CheckAvailable(w) ==
    /\ workers[w].pc = "check"
    /\ workers' = [workers EXCEPT ![w] =
           IF Unavailable(GLOSSARY_DATA)
           THEN [@ EXCEPT !.pc = "done", !.response = UnavailableResponse]
           ELSE IF @.query = <<>>
           THEN [@ EXCEPT !.pc = "listing"]
           ELSE [@ EXCEPT !.pc = "loop"]]
    /\ UNCHANGED <<file, client, pc, GLOSSARY_DATA, request, response, seen>>

\* The listing path: the terms are read and serialised.
ListTerms(w) ==
    /\ workers[w].pc = "listing"
    /\ workers' = [workers EXCEPT ![w] =
           [@ EXCEPT !.pc = "done",
                     !.response = TermsResponse(
                         ListedTerms(GLOSSARY_DATA[1].terms, workers[w].category),
                         GLOSSARY_DATA[1].categories),
                     !.raced = OthersScoring(w)]]
    /\ GLOSSARY_DATA' =
           << [GLOSSARY_DATA[1] EXCEPT
                  !.terms = ListedStored(GLOSSARY_DATA[1].terms, workers[w].category)] >>
    /\ UNCHANGED <<file, client, pc, request, response, seen>>

\* One iteration of the scoring loop, on the term after the i already visited.
ScoreTerm(w) ==
    /\ workers[w].pc = "loop"
    /\ workers[w].i < Len(GLOSSARY_DATA[1].terms)
    /\ LET n == workers[w].i + 1
           term == GLOSSARY_DATA[1].terms[n]
           score == max_score(term, workers[w].query)
           appends == ~Skipped(term, workers[w].category) /\ Included(score)
       IN  /\ workers' = [workers EXCEPT ![w] =
                  [@ EXCEPT !.i = n,
                            !.results = IF appends
                                        THEN Append(@, ScoredEntry(term, score))
                                        ELSE @,
                            !.raced = @ \/ OthersScoring(w)]]
           /\ GLOSSARY_DATA' =
                  IF appends
                  THEN << [GLOSSARY_DATA[1] EXCEPT !.terms[n] = StoredEntry(term, score)] >>
                  ELSE GLOSSARY_DATA
    /\ UNCHANGED <<file, client, pc, request, response, seen>>

\* After the last iteration: sort, slice and serialise.
SortAndSlice(w) ==
    /\ workers[w].pc = "loop"
    /\ workers[w].i = Len(GLOSSARY_DATA[1].terms)
    /\ workers' = [workers EXCEPT ![w] =
           [@ EXCEPT !.pc = "done",
                     !.response = TermsResponse(Truncate(SortByScore(workers[w].results)),
                                                GLOSSARY_DATA[1].categories)]]
    /\ UNCHANGED <<file, client, pc, GLOSSARY_DATA, request, response, seen>>

\* The body of get_term.
LookUp(w) ==
    /\ workers[w].pc = "lookup"
    /\ workers' = [workers EXCEPT ![w] =
           [@ EXCEPT !.pc = "done",
                     !.response = GetTermResponse(GLOSSARY_DATA, workers[w].request.term_id),
                     !.raced = OthersScoring(w)]]
    /\ UNCHANGED <<file, client, pc, GLOSSARY_DATA, request, response, seen>>

\* The response of thread w goes back to the client.
Respond(w) ==
    /\ workers[w].pc = "done"
    /\ workers' = [workers EXCEPT ![w] = Idle]
    /\ UNCHANGED <<file, client, pc, GLOSSARY_DATA, request, response, seen>>

NextThreaded ==
    \/ LoadGlossary
    \/ \E w \in Workers, qArg \in ThreadedQArgs, categoryArg \in ThreadedCategoryArgs :
          ArriveSearch(w, qArg, categoryArg)
    \/ \E w \in Workers, term_id \in ThreadedTermIds : ArriveGetTerm(w, term_id)
    \/ \E w \in Workers : CheckAvailable(w)
    \/ \E w \in Workers : ListTerms(w)
    \/ \E w \in Workers : ScoreTerm(w)
    \/ \E w \in Workers : SortAndSlice(w)
    \/ \E w \in Workers : LookUp(w)
    \/ \E w \in Workers : Respond(w)

SpecThreaded == InitThreaded /\ [][NextThreaded]_vars

\* ------------------------------------------------------------------ claims

\* The call the current response answers.
IsSearch == request.op = "search"
IsGetTerm == request.op = "get_term"
RawQuery == ArgsGet(request.q, <<>>)
RawCategory == ArgsGet(request.category, <<>>)
TrimmedQuery == strip(RawQuery)
TrimmedCategory == strip(RawCategory)
Corpus == GLOSSARY_DATA[1].terms
Returned == response.terms
One == Frac(1, 1)

\* C1 as stated: for every query and every non-empty category C, search
\* returns only terms whose category equals C itself.
C1_AsStated ==
    (IsSearch /\ RawCategory # <<>> /\ response.status = 200) =>
        \A k \in 1..Len(Returned) : Returned[k].category = RawCategory

\* C1 amended: for every query and every category C whose stripped form is
\* not empty, search returns only terms whose category equals strip(C),
\* case-sensitively, on the scored path and on the listing path.
C1_CategoryFilter ==
    (IsSearch /\ TrimmedCategory # <<>> /\ response.status = 200) =>
        \A k \in 1..Len(Returned) : Returned[k].category = TrimmedCategory

\* A scored search with category " m " that returned terms while a term of
\* another category scores above the threshold.
C1_Witness ==
    /\ IsSearch
    /\ RawCategory = <<" ", "m", " ">>
    /\ TrimmedQuery # <<>>
    /\ response.status = 200
    /\ Returned # <<>>
    /\ \E i \in 1..Len(Corpus) :
          /\ Corpus[i].category # <<"m">>
          /\ Included(max_score(Corpus[i], TrimmedQuery))

\* C2: on the scored path every returned entry carries the matchScore of its
\* term, which is above 3/10 and at most 1, and a candidate scoring exactly
\* 3/10 is not returned.
C2_Threshold ==
    (IsSearch /\ TrimmedQuery # <<>> /\ response.status = 200) =>
        LET candidates ==
                {ScoredEntry(t, max_score(t, TrimmedQuery)) :
                    t \in {Corpus[i] : i \in 1..Len(Corpus)}}
        IN  \A k \in 1..Len(Returned) :
               /\ "matchScore" \in DOMAIN Returned[k]
               /\ Returned[k] \in candidates
               /\ FracLess(Frac(3, 10), Returned[k].matchScore)
               /\ FracLeq(Returned[k].matchScore, One)
               /\ Returned[k].matchScore # Frac(3, 10)

\* A scored search that returned a term and left out a candidate whose score
\* is exactly 3/10.
C2_Witness ==
    /\ IsSearch
    /\ TrimmedQuery # <<>>
    /\ response.status = 200
    /\ Returned # <<>>
    /\ \E i \in 1..Len(Corpus) :
          /\ ~Skipped(Corpus[i], TrimmedCategory)
          /\ max_score(Corpus[i], TrimmedQuery) = Frac(3, 10)

\* C3 as stated: no search, the empty and the blank query included, returns
\* more than 20 terms.
C3_AsStated ==
    (IsSearch /\ response.status = 200) => Len(Returned) <= MAX_RESULTS

\* C3 amended: a search whose stripped query is not empty never returns more
\* than 20 terms, whatever the corpus size (the listing of an empty query is
\* not truncated).
C3_ScoredLimit ==
    (IsSearch /\ TrimmedQuery # <<>> /\ response.status = 200) =>
        Len(Returned) <= MAX_RESULTS

\* A scored search that returned 20 terms of more than 20 that pass the
\* threshold.
C3_Witness ==
    /\ IsSearch
    /\ TrimmedQuery # <<>>
    /\ response.status = 200
    /\ Len(Returned) = MAX_RESULTS
    /\ Cardinality({i \in 1..Len(Corpus) :
                      /\ ~Skipped(Corpus[i], TrimmedCategory)
                      /\ Included(max_score(Corpus[i], TrimmedQuery))}) > MAX_RESULTS

\* C4 as stated: when the stripped query is empty, search is no error and
\* returns the whole corpus when C is absent or empty, and otherwise exactly
\* the terms whose category is C, in corpus order and without matchScore.
C4_AsStated ==
    (IsSearch /\ TrimmedQuery = <<>>) =>
        /\ response.status = 200
        /\ Returned = IF RawCategory = <<>>
                      THEN Corpus
                      ELSE SelectSeq(Corpus, LAMBDA t : t.category = RawCategory)
        /\ \A k \in 1..Len(Returned) : "matchScore" \notin DOMAIN Returned[k]

\* C4 amended: when the stripped query is empty (absent, empty or blank) and
\* the corpus holds at least one term, search is no error and lists, in
\* corpus order, without matchScore, scoring, threshold or the 20-term cut,
\* all terms when strip(C) is empty and otherwise exactly the terms whose
\* category is strip(C), with the category list; on an empty corpus it
\* answers "Glossary data not available".
C4_EmptyQueryLists ==
    (IsSearch /\ TrimmedQuery = <<>>) =>
        IF Corpus = <<>>
        THEN response = UnavailableResponse
        ELSE /\ response.status = 200
             /\ Returned = IF TrimmedCategory = <<>>
                           THEN Corpus
                           ELSE SelectSeq(Corpus, LAMBDA t : t.category = TrimmedCategory)
             /\ \A k \in 1..Len(Returned) : "matchScore" \notin DOMAIN Returned[k]
             /\ response.categories = GLOSSARY_DATA[1].categories

\* A blank query with category " m " that listed some terms of the corpus and
\* not others.
C4_Witness ==
    /\ IsSearch
    /\ RawQuery = <<" ">>
    /\ RawCategory = <<" ", "m", " ">>
    /\ response.status = 200
    /\ Returned # <<>>
    /\ Len(Returned) < Len(Corpus)

\* The candidates before corpus position i whose headword equals the stripped
\* query case-insensitively.
ExactAhead(i) ==
    Cardinality({j \in 1..(i - 1) :
                    /\ ~Skipped(Corpus[j], TrimmedCategory)
                    /\ lower(Corpus[j].term) = lower(TrimmedQuery)})

\* C5 as stated: a query equal, case-insensitively, to the headword of a term
\* the category filter does not exclude returns that term with matchScore 1,
\* after entries of matchScore 1 only.
C5_AsStated ==
    IsSearch =>
        \A i \in 1..Len(Corpus) :
            (/\ lower(RawQuery) = lower(Corpus[i].term)
             /\ ~Skipped(Corpus[i], TrimmedCategory)) =>
                /\ response.status = 200
                /\ \E k \in 1..Len(Returned) :
                      /\ Returned[k] = ScoredEntry(Corpus[i], One)
                      /\ \A j \in 1..(k - 1) : Returned[j].matchScore = One

\* C5 amended: when the stripped query is not empty and equals,
\* case-insensitively, the headword of a term the category filter does not
\* exclude, that term scores 1 and is returned right after the exact matches
\* that precede it in the corpus, so after entries of matchScore 1 only,
\* unless 20 or more exact matches precede it: then it is cut and all 20
\* returned entries score 1.
C5_ExactMatchFirst ==
    (IsSearch /\ TrimmedQuery # <<>> /\ response.status = 200) =>
        \A i \in 1..Len(Corpus) :
            (/\ lower(TrimmedQuery) = lower(Corpus[i].term)
             /\ ~Skipped(Corpus[i], TrimmedCategory)) =>
                IF ExactAhead(i) < MAX_RESULTS
                THEN /\ Len(Returned) > ExactAhead(i)
                     /\ Returned[ExactAhead(i) + 1] = ScoredEntry(Corpus[i], One)
                ELSE /\ Len(Returned) = MAX_RESULTS
                     /\ \A k \in 1..Len(Returned) : Returned[k].matchScore = One

\* The query "AB" put a term whose headword is "Ab" or "ab", not the first of
\* the corpus, ahead of a lower-scoring term.
C5_Witness ==
    /\ IsSearch
    /\ RawQuery = <<"A", "B">>
    /\ response.status = 200
    /\ Len(Returned) >= 2
    /\ Returned[1].matchScore = One
    /\ Returned[2].matchScore # One
    /\ lower(Corpus[1].term) # <<"a", "b">>

\* C6: on a corpus with at least one term, get_term answers with the first
\* term in corpus order that has the id, and with "Term not found" (404),
\* which is not the "Glossary data not available" (500) answer and carries no
\* term, exactly when no term has the id.
C6_GetTerm ==
    (IsGetTerm /\ Corpus # <<>>) =>
        LET hits == {i \in 1..Len(Corpus) : Corpus[i].id = request.term_id}
        IN  IF hits = {}
            THEN /\ response = [status |-> 404, error |-> "Term not found"]
                 /\ response # UnavailableResponse
            ELSE /\ response.status = 200
                 /\ \E i \in hits :
                       /\ \A j \in hits : i <= j
                       /\ response.term = Corpus[i]

\* get_term on an id that two different terms carry answered with the first.
C6_Witness ==
    /\ IsGetTerm
    /\ response.status = 200
    /\ \E i, j \in 1..Len(Corpus) :
          /\ i < j
          /\ Corpus[i].id = request.term_id
          /\ Corpus[j].id = request.term_id
          /\ Corpus[i] # Corpus[j]
          /\ response.term = Corpus[i]

\* C7: when the load fails (no file, no JSON, no "terms" list) the import
\* still completes, GLOSSARY_DATA is the empty glossary (no terms, no
\* categories), and every search and every get_term from then on is answered
\* "Glossary data not available" (500), without terms.
C7_Degraded ==
    (pc # "import" /\ ~LoadSucceeds(file)) =>
        /\ pc = "serving"
        /\ GLOSSARY_DATA = <<[terms |-> <<>>, categories |-> <<>>]>>
        /\ (IsSearch \/ IsGetTerm) =>
              /\ response = [status |-> 500, error |-> "Glossary data not available"]
              /\ "terms" \notin DOMAIN response
              /\ "term" \notin DOMAIN response

\* A search with a query, answered after the load of a JSON file without a
\* "terms" list.
C7_Witness ==
    /\ pc = "serving"
    /\ file.kind = "json"
    /\ ~LoadSucceeds(file)
    /\ IsSearch
    /\ TrimmedQuery # <<>>
    /\ response.status = 500

\* C8 as stated: after a successful load no search or listing is an error,
\* not even on a corpus of zero terms.
C8_AsStated ==
    (IsSearch /\ LoadSucceeds(file)) =>
        /\ response.status = 200
        /\ response # UnavailableResponse

\* C8 amended: search and listing answer "Glossary data not available"
\* exactly when the corpus holds no term (after a failed load, or after the
\* load of a file with zero terms); on a corpus with at least one term an
\* unknown category or a query that matches nothing is a success with an
\* empty term sequence and the category list.
C8_ErrorOnlyIfEmpty ==
    IsSearch =>
        IF Corpus = <<>>
        THEN response = UnavailableResponse
        ELSE /\ response.status = 200
             /\ response.categories = file.data.categories
             /\ (/\ TrimmedCategory # <<>>
                 /\ \A i \in 1..Len(Corpus) : Corpus[i].category # TrimmedCategory)
                   => Returned = <<>>

\* A scored search with the unknown category "z" on a loaded corpus: success,
\* no terms, the categories.
C8_Witness ==
    /\ IsSearch
    /\ LoadSucceeds(file)
    /\ Corpus # <<>>
    /\ TrimmedQuery # <<>>
    /\ RawCategory = <<"z">>
    /\ response.status = 200
    /\ Returned = <<>>
    /\ response.categories # <<>>

\* The headword of e equals the stripped query, case-insensitively.
IsExact(e) == lower(e.term) = lower(TrimmedQuery)

\* e matches the stripped query only by containment inside its
\* detailedDefinition: neither headword nor shortDefinition contains it, and
\* detailedDefinition contains it without starting with it.
DetailOnly(e) ==
    /\ contains(lower(e.detailedDefinition), lower(TrimmedQuery))
    /\ ~startswith(lower(e.detailedDefinition), lower(TrimmedQuery))
    /\ ~contains(lower(e.term), lower(TrimmedQuery))
    /\ ~contains(lower(e.shortDefinition), lower(TrimmedQuery))

\* C9: in a scored result every candidate whose headword equals the query is
\* returned before any term matched only by containment in its
\* detailedDefinition, whatever their order in the corpus.
C9_ExactBeforeDetail ==
    (IsSearch /\ TrimmedQuery # <<>> /\ response.status = 200) =>
        \A k \in 1..Len(Returned) :
            DetailOnly(Returned[k]) =>
                /\ \A j \in (k + 1)..Len(Returned) : ~IsExact(Returned[j])
                /\ Cardinality({j \in 1..(k - 1) : IsExact(Returned[j])})
                     = Cardinality({i \in 1..Len(Corpus) :
                                      /\ ~Skipped(Corpus[i], TrimmedCategory)
                                      /\ IsExact(Corpus[i])})

\* The corpus starts with a term matched only in detailedDefinition (7/20)
\* and the result starts with the exact match that follows it in the corpus.
C9_Witness ==
    /\ IsSearch
    /\ TrimmedQuery # <<>>
    /\ response.status = 200
    /\ Len(Returned) = 2
    /\ IsExact(Returned[1])
    /\ DetailOnly(Returned[2])
    /\ Returned[2].matchScore = Frac(7, 20)
    /\ DetailOnly(Corpus[1])

\* C10: a call repeated with the same query, category or id after any calls
\* in between gets the response of the earlier call: same status, same terms
\* in the same order, same matchScore values.
C10_Idempotent ==
    (seen # <<>> /\ request = seen[1].request) => response = seen[1].response

\* A scored search that returned at least two ranked entries, made again
\* after its first answer was sent.
C10_Witness ==
    /\ seen # <<>>
    /\ request = seen[1].request
    /\ IsSearch
    /\ TrimmedQuery # <<>>
    /\ response.status = 200
    /\ Len(Returned) >= 2


\* What the call thread w runs returns when it runs alone against the corpus
\* as it was loaded.
AloneResponse(w) ==
    LET call == workers[w].request
        loaded == <<LoadedData(file)>>
    IN  IF call.op = "search"
        THEN SearchOutcome(loaded, strip(ArgsGet(call.q, <<>>)),
                           strip(ArgsGet(call.category, <<>>))).response
        ELSE GetTermResponse(loaded, call.term_id)

\* C11: under every interleaving of search and get_term calls running on
\* threads that take no lock, a call that has finished returns what it
\* returns when run alone against the loaded corpus, and GLOSSARY_DATA is
\* still the loaded corpus, so that no matchScore of one request shows in
\* another request's result.
C11_Isolation ==
    pc = "serving" =>
        /\ GLOSSARY_DATA = <<LoadedData(file)>>
        /\ \A w \in Workers :
              workers[w].pc = "done" => workers[w].response = AloneResponse(w)

\* A listing or a get_term call finished with terms to show after reading the
\* corpus while another thread was inside its scoring loop with a scored
\* entry appended.
C11_Witness ==
    \E w \in Workers :
        /\ workers[w].pc = "done"
        /\ workers[w].raced
        /\ workers[w].response.status = 200
        /\ \/ workers[w].request.op = "get_term"
           \/ workers[w].query = <<>> /\ workers[w].response.terms # <<>>


\* The call of fuzzy_match_score the current response answers.
IsScore == request.op = "fuzzy_match_score"
Q == lower(request.query)
T == lower(request.text)
\* The longest block Q and T have in common.
LongestBlock ==
    LET runs == {RunLen(Q, T, i, j, Len(Q), Len(T)) : i \in 1..Len(Q), j \in 1..Len(T)}
    IN  IF runs = {} THEN 0 ELSE CHOOSE k \in runs : \A r \in runs : r <= k

\* C12: fuzzy_match_score(Q, T) compares the lower-cased Q and T and returns
\* 1.0 if they are equal, else 0.9 if T starts with Q, else 0.7 if T contains
\* Q, else 2*M/(|Q|+|T|) with M the characters matched by the longest
\* matching blocks (at least the longest block, at most the shorter string);
\* the result lies in [0, 1].
C12_Precedence ==
    IsScore =>
        LET M == matches(Q, T, 1, Len(Q), 1, Len(T))
        IN  /\ response.score =
                   IF Q = T THEN Frac(1, 1)
                   ELSE IF startswith(T, Q) THEN Frac(9, 10)
                   ELSE IF contains(T, Q) THEN Frac(7, 10)
                   ELSE Frac(2 * M, Len(Q) + Len(T))
            /\ LongestBlock <= M /\ M <= Len(Q) /\ M <= Len(T)
            /\ FracLeq(Frac(0, 1), response.score)
            /\ FracLeq(response.score, Frac(1, 1))

\* A call with an upper-case letter in Q that is decided by the similarity
\* ratio, with some but not all characters matched.
C12_Witness ==
    /\ IsScore
    /\ request.query # Q
    /\ ~contains(T, Q)
    /\ FracLess(Frac(0, 1), response.score)
    /\ FracLess(response.score, Frac(1, 1))


\* The three weighted scores of a returned entry, recomputed from its fields.
TermScore(e) == fuzzy_match_score(TrimmedQuery, e.term)
DefScore(e) == FracMul(fuzzy_match_score(TrimmedQuery, e.shortDefinition), Frac(7, 10))
DetailScore(e) == FracMul(fuzzy_match_score(TrimmedQuery, e.detailedDefinition), Frac(1, 2))

\* C13: the matchScore of every returned entry is the greatest of the fuzzy
\* score of term, 0.7 times that of shortDefinition and 0.5 times that of
\* detailedDefinition; a query that is a proper prefix of the lower-cased
\* term gives 0.9, and one that shortDefinition holds inside while the other
\* two weighted scores stay below 0.49 gives 0.49.
C13_MaxOfWeighted ==
    (IsSearch /\ TrimmedQuery # <<>> /\ response.status = 200) =>
        \A k \in 1..Len(Returned) :
            LET e == Returned[k]
                q == lower(TrimmedQuery)
                short == lower(e.shortDefinition)
            IN  /\ e.matchScore \in {TermScore(e), DefScore(e), DetailScore(e)}
                /\ FracLeq(TermScore(e), e.matchScore)
                /\ FracLeq(DefScore(e), e.matchScore)
                /\ FracLeq(DetailScore(e), e.matchScore)
                /\ (startswith(lower(e.term), q) /\ lower(e.term) # q)
                       => e.matchScore = Frac(9, 10)
                /\ ( /\ contains(short, q) /\ ~startswith(short, q)
                     /\ FracLess(TermScore(e), Frac(49, 100))
                     /\ FracLess(DetailScore(e), Frac(49, 100)) )
                       => e.matchScore = Frac(49, 100)

\* A search returned an entry matched by containment in shortDefinition at
\* 0.49 whose detailedDefinition scores too, so that the sum and the average
\* of the three differ from the greatest, next to an entry matched as a
\* prefix of its term at 0.9.
C13_Witness ==
    /\ IsSearch /\ TrimmedQuery # <<>> /\ response.status = 200
    /\ \E k \in 1..Len(Returned) :
          /\ Returned[k].matchScore = Frac(49, 100)
          /\ DefScore(Returned[k]) = Frac(49, 100)
          /\ FracLess(Frac(0, 1), DetailScore(Returned[k]))
    /\ \E k \in 1..Len(Returned) :
          /\ Returned[k].matchScore = Frac(9, 10)
          /\ TermScore(Returned[k]) = Frac(9, 10)


\* results when the loop ends: the scored entries in corpus order.
Scored ==
    Appended(Corpus, LoopScores(Corpus, TrimmedQuery, TrimmedCategory), Len(Corpus))

\* The place of scored[i] in the stable descending order: after every entry
\* of a greater matchScore and after the earlier entries of its own.
Rank(scored, i) ==
    1 + Cardinality({j \in 1..Len(scored) :
            \/ FracLess(scored[i].matchScore, scored[j].matchScore)
            \/ scored[j].matchScore = scored[i].matchScore /\ j < i})

\* C14: the result of a scored search is ordered by matchScore,
\* non-increasing, entries of equal matchScore keep their corpus order, and
\* the result is the first 20 entries of that ordering of all scored entries
\* (the cut comes after the sort).
C14_StableThenCut ==
    (IsSearch /\ TrimmedQuery # <<>> /\ response.status = 200) =>
        LET scored == Scored
            returned == Returned
        IN  /\ Len(returned) = IF Len(scored) <= 20 THEN Len(scored) ELSE 20
            /\ \A i \in 1..Len(scored) :
                  LET r == Rank(scored, i) IN r <= 20 => returned[r] = scored[i]
            /\ \A k \in 1..Len(returned) : \A l \in k..Len(returned) :
                  FracLeq(returned[l].matchScore, returned[k].matchScore)

\* A search scored more than 20 entries and returned one that stands after
\* the 20th of them in corpus order, behind entries that differ from it and
\* share its matchScore, and ahead of entries of a lower one.
C14_Witness ==
    /\ IsSearch /\ TrimmedQuery # <<>> /\ response.status = 200
    /\ LET scored == Scored
           returned == Returned
       IN  /\ Len(scored) > 20
           /\ \E i \in 21..Len(scored) :
                 /\ Rank(scored, i) < Len(returned)
                 /\ FracLess(returned[Len(returned)].matchScore, scored[i].matchScore)
                 /\ \E j \in 1..(i - 1) :
                       /\ scored[j].matchScore = scored[i].matchScore
                       /\ scored[j] # scored[i]


\* s without its leading and trailing blanks, tabs and line feeds.
TrimOf(s) ==
    LET kept == {i \in 1..Len(s) : s[i] \notin {" ", "\t", "\n"}}
    IN  IF kept = {}
        THEN <<>>
        ELSE SubSeq(s, CHOOSE i \in kept : \A j \in kept : i <= j,
                       CHOOSE i \in kept : \A j \in kept : j <= i)

\* The earlier call kept in seen was a search whose query, trimmed, is the
\* query of the current search, with the same category.
SearchOfTrimmed ==
    /\ seen # <<>>
    /\ seen[1].request.op = "search"
    /\ IsSearch
    /\ request.category = seen[1].request.category
    /\ RawQuery = TrimOf(ArgsGet(seen[1].request.q, <<>>))

\* C15: search(Q, C) returns what search(trim(Q), C) returns, and what it
\* returns is what the body of the handler computes from trim(Q): terms are
\* compared with the trimmed text, never with Q itself.
C15_TrimmedQuery ==
    /\ SearchOfTrimmed => response = seen[1].response
    /\ IsSearch =>
          response = SearchOutcome(GLOSSARY_DATA, TrimOf(RawQuery), TrimmedCategory).response

\* A search for "ab" answered with entries after the search for " ab " was:
\* the two responses are the same, on a corpus where comparing " ab " itself
\* scores or ranks differently.
C15_Witness ==
    /\ SearchOfTrimmed
    /\ ArgsGet(seen[1].request.q, <<>>) # RawQuery
    /\ RawQuery # <<>>
    /\ response.status = 200
    /\ Returned # <<>>
    /\ response = seen[1].response
    /\ response # SearchOutcome(GLOSSARY_DATA, ArgsGet(seen[1].request.q, <<>>),
                                TrimmedCategory).response


\* C16: GLOSSARY_DATA is None during the import, becomes the parsed file or
\* the empty glossary in the one step that ends the import, and no step
\* after that (search, listing, get_term, related terms, reply) changes it:
\* no term is added, removed, reordered or modified, and the categories
\* stay.
C16_CorpusFrozen ==
    [][ /\ pc = "import" =>
              /\ GLOSSARY_DATA = <<>>
              /\ pc' = "serving"
              /\ \/ LoadSucceeds(file) /\ GLOSSARY_DATA' = <<file.data>>
                 \/ ~LoadSucceeds(file)
                      /\ GLOSSARY_DATA' = << [terms |-> <<>>, categories |-> <<>>] >>
        /\ pc # "import" => (pc' = pc /\ GLOSSARY_DATA' = GLOSSARY_DATA)
      ]_<<pc, GLOSSARY_DATA>>

\* A search by category has been answered with scored entries, fewer than the
\* corpus has terms, and the corpus is the parsed file, no term of it with a
\* matchScore.
C16_Witness ==
    /\ IsSearch /\ TrimmedQuery # <<>> /\ TrimmedCategory # <<>>
    /\ response.status = 200
    /\ Returned # <<>>
    /\ Len(Returned) < Len(Corpus)
    /\ GLOSSARY_DATA = <<file.data>>
    /\ \A k \in 1..Len(Corpus) : "matchScore" \notin DOMAIN Corpus[k]

====
